---- MODULE Spec2Model ----
(***************************************************************************)
(* Offset / position translation engine of the Codepoints extension        *)
(* (src/src/extension.ts, lines 265-533): line table, position advancer,   *)
(* character scan, character detail decomposer and the two go-to commands. *)
(*                                                                         *)
(* Text is a sequence of UTF-16 code units (numbers).  A document is its   *)
(* list of lines (terminators removed) plus its line-ending style.         *)
(***************************************************************************)
EXTENDS Integers, Sequences, FiniteSets, TLC

VARIABLES lines, eol, selections, last, out

vars == <<lines, eol, selections, last, out>>

(***************************************************************************)
(* Bounds of the model.                                                    *)
(***************************************************************************)
\* Longest document text, in logical characters (line breaks included).
MaxChars == 3

(***************************************************************************)
(* Code units.                                                             *)
(***************************************************************************)
LF == 10
CR == 13
\* 0xd800 and 0xdc00: the high-surrogate range tested by advancePosition.
HighSurrogateMin == 55296
HighSurrogateLim == 56320
\* 0xdfff + 1
LowSurrogateLim == 57344

IsHigh(u) == HighSurrogateMin <= u /\ u < HighSurrogateLim
IsLow(u) == HighSurrogateLim <= u /\ u < LowSurrogateLim

\* The logical characters documents are made of: "a" (1 byte), U+00E6
\* (2 bytes), U+20AC (3 bytes) and U+1F600 (4 bytes, a surrogate pair).
DocChars == {<<97>>, <<230>>, <<8364>>, <<55357, 56832>>}
\* A line break in a generated text.
Break == <<LF>>

(***************************************************************************)
(* Helpers on sequences.                                                   *)
(***************************************************************************)
RECURSIVE Flatten(_)
Flatten(ss) == IF ss = <<>> THEN <<>> ELSE Head(ss) \o Flatten(Tail(ss))

Min(a, b) == IF a <= b THEN a ELSE b

\* String.prototype.slice(0, n) with n = -1 standing for "undefined".
Slice(s, n) == IF n < 0 \/ n >= Len(s) THEN s ELSE SubSeq(s, 1, n)

(***************************************************************************)
(* JavaScript string iteration and UTF-8 encoding (Buffer.from).           *)
(***************************************************************************)
\* for (const c of s) / [...s]: one piece per code point; a high surrogate
\* followed by a low surrogate is one piece, any other unit is its own piece.
RECURSIVE CodePoints(_)
CodePoints(s) ==
    IF s = <<>> THEN <<>>
    ELSE IF Len(s) >= 2 /\ IsHigh(s[1]) /\ IsLow(s[2])
         THEN <<SubSeq(s, 1, 2)>> \o CodePoints(SubSeq(s, 3, Len(s)))
         ELSE <<SubSeq(s, 1, 1)>> \o CodePoints(Tail(s))

\* String.prototype.codePointAt(0) of a non-empty string.
CodePointAt0(s) ==
    IF Len(s) >= 2 /\ IsHigh(s[1]) /\ IsLow(s[2])
    THEN 65536 + (s[1] - HighSurrogateMin) * 1024 + (s[2] - HighSurrogateLim)
    ELSE s[1]

\* UTF-8 bytes of one code point as Buffer.from(str, 'utf8') writes it; an
\* unpaired surrogate is written as U+FFFD (ef bf bd).
Utf8OfCodePoint(cp) ==
    IF cp < 128 THEN <<cp>>
    ELSE IF cp < 2048 THEN <<192 + (cp \div 64), 128 + (cp % 64)>>
    ELSE IF HighSurrogateMin <= cp /\ cp < LowSurrogateLim THEN <<239, 191, 189>>
    ELSE IF cp < 65536
         THEN <<224 + (cp \div 4096), 128 + ((cp \div 64) % 64), 128 + (cp % 64)>>
    ELSE <<240 + (cp \div 262144), 128 + ((cp \div 4096) % 64),
           128 + ((cp \div 64) % 64), 128 + (cp % 64)>>

\* Buffer.from(s, UTF8)
RECURSIVE Utf8Pieces(_)
Utf8Pieces(ps) ==
    IF ps = <<>> THEN <<>>
    ELSE Utf8OfCodePoint(CodePointAt0(Head(ps))) \o Utf8Pieces(Tail(ps))

BufferFrom(s) == Utf8Pieces(CodePoints(s))

(***************************************************************************)
(* The host text buffer (vscode.TextDocument).                             *)
(***************************************************************************)
Pos(l, c) == [line |-> l, character |-> c]
\* advancePosition's null, and the marker of an exception thrown by lineAt.
NullPos == Pos(-1, -1)
ThrowPos == Pos(-2, -2)

LineCount == Len(lines)
ValidLine(n) == 0 <= n /\ n < LineCount
\* doc.lineAt(n).text, for a valid n
LineText(n) == lines[n + 1]
EolText == IF eol = "CRLF" THEN <<CR, LF>> ELSE <<LF>>

RECURSIVE JoinLines(_, _)
JoinLines(ls, sep) ==
    IF Len(ls) = 1 THEN ls[1] ELSE ls[1] \o sep \o JoinLines(Tail(ls), sep)

\* doc.getText()
DocText == JoinLines(lines, EolText)

\* doc.offsetAt(pos) after validatePosition: the column is clamped to the line.
RECURSIVE OffsetAt(_)
OffsetAt(p) ==
    IF p.line >= LineCount THEN Len(DocText)
    ELSE IF p.line = 0 THEN Min(p.character, Len(LineText(0)))
    ELSE OffsetAt(Pos(p.line - 1, Len(LineText(p.line - 1))))
         + Len(EolText) + Min(p.character, Len(LineText(p.line)))

\* doc.getText(new vscode.Range(a, b)), a not after b: the text between the
\* two (clamped) positions, line terminators included.
GetText(a, b) ==
    IF a.line = b.line /\ ValidLine(a.line)
    THEN SubSeq(LineText(a.line), Min(a.character, Len(LineText(a.line))) + 1,
                Min(b.character, Len(LineText(a.line))))
    ELSE SubSeq(DocText, OffsetAt(a) + 1, OffsetAt(b))

EndOfDocument == Pos(LineCount - 1, Len(LineText(LineCount - 1)))

(***************************************************************************)
(* Positions and selections (vscode.Position, vscode.Selection).           *)
(***************************************************************************)
PosBefore(a, b) == a.line < b.line \/ (a.line = b.line /\ a.character < b.character)

\* new vscode.Selection(anchor, active)
Selection(a, b) == [anchor |-> a, active |-> b]
SelStart(s) == IF PosBefore(s.active, s.anchor) THEN s.active ELSE s.anchor
SelEnd(s) == IF PosBefore(s.active, s.anchor) THEN s.anchor ELSE s.active
IsEmpty(s) == s.anchor = s.active
Cursor(p) == Selection(p, p)

(***************************************************************************)
(* getDocText and getOffsets.                                              *)
(***************************************************************************)
\* Faulty variant: text.match(/\r[^\n]|[^\r]\n/), which needs a character on
\* the other side and so misses a pair broken at either end of the text.
HasBrokenPairInner(t) ==
    \E i \in 1..Len(t) :
        \/ t[i] = CR /\ i < Len(t) /\ t[i + 1] # LF
        \/ t[i] = LF /\ i > 1 /\ t[i - 1] # CR

\* text.match(/\r(?!\n)|(?<!\r)\n/)
HasBrokenPair(t) ==
    \E i \in 1..Len(t) :
        \/ t[i] = CR /\ (i = Len(t) \/ t[i + 1] # LF)
        \/ t[i] = LF /\ (i = 1 \/ t[i - 1] # CR)

\* Faulty variant: text.replace('\r\n', '\n'), which replaces the first pair only.
ReplaceFirstCrLf(t) ==
    IF \E i \in 1..(Len(t) - 1) : t[i] = CR /\ t[i + 1] = LF
    THEN LET i == CHOOSE i \in 1..(Len(t) - 1) :
                    /\ t[i] = CR /\ t[i + 1] = LF
                    /\ \A j \in 1..(i - 1) : ~(t[j] = CR /\ t[j + 1] = LF)
         IN SubSeq(t, 1, i - 1) \o <<LF>> \o SubSeq(t, i + 2, Len(t))
    ELSE t

\* text.replace(/\r\n/g, '\n')
RECURSIVE ReplaceCrLf(_)
ReplaceCrLf(t) ==
    IF t = <<>> THEN <<>>
    ELSE IF Len(t) >= 2 /\ t[1] = CR /\ t[2] = LF
         THEN <<LF>> \o ReplaceCrLf(SubSeq(t, 3, Len(t)))
         ELSE <<t[1]>> \o ReplaceCrLf(Tail(t))

\* getDocText(doc, new Range(a, b), maxLength); maxLength = -1 is "undefined".
getDocText(a, b, maxLength) ==
    LET text == Slice(GetText(a, b), maxLength) IN
    IF eol = "CRLF"
    THEN IF HasBrokenPair(text) THEN [threw |-> TRUE, text |-> <<>>]
         ELSE [threw |-> FALSE, text |-> ReplaceCrLf(text)]
    ELSE [threw |-> FALSE, text |-> text]

\* Faulty variant: the \r of the terminators before pos is not counted.
getOffsetsNoEolAdjustment(pos) ==
    LET text == getDocText(Pos(0, 0), pos, -1).text
    IN [byte |-> Len(BufferFrom(text)),
        char |-> Len(CodePoints(text))]

\* getOffsets(doc, pos), when getDocText does not throw
getOffsets(pos) ==
    LET text == getDocText(Pos(0, 0), pos, -1).text
        eolAdjustment == IF eol = "CRLF" THEN pos.line ELSE 0
    IN [byte |-> Len(BufferFrom(text)) + eolAdjustment,
        char |-> Len(CodePoints(text))]

(***************************************************************************)
(* advancePosition.                                                        *)
(***************************************************************************)
\* Faulty variant: a low surrogate is taken for the start of a pair as well.
RECURSIVE AdvanceLoopAnySurrogate(_, _, _)
AdvanceLoopAnySurrogate(lineNum, colNum, n) ==
    IF n <= 0 THEN Pos(lineNum, colNum)
    ELSE IF colNum >= Len(LineText(lineNum))
         THEN IF ValidLine(lineNum + 1)
              THEN AdvanceLoopAnySurrogate(lineNum + 1, 0, n - 1)
              ELSE NullPos
         ELSE IF IsHigh(LineText(lineNum)[colNum + 1]) \/ IsLow(LineText(lineNum)[colNum + 1])
              THEN AdvanceLoopAnySurrogate(lineNum, colNum + 2, n - 1)
              ELSE AdvanceLoopAnySurrogate(lineNum, colNum + 1, n - 1)

\* The body of the for loop, n iterations left.
RECURSIVE AdvanceLoop(_, _, _)
AdvanceLoop(lineNum, colNum, n) ==
    IF n <= 0 THEN Pos(lineNum, colNum)
    ELSE IF colNum >= Len(LineText(lineNum))
         THEN IF ValidLine(lineNum + 1)
              THEN AdvanceLoop(lineNum + 1, 0, n - 1)
              ELSE NullPos
         ELSE IF IsHigh(LineText(lineNum)[colNum + 1])
              THEN AdvanceLoop(lineNum, colNum + 2, n - 1)
              ELSE AdvanceLoop(lineNum, colNum + 1, n - 1)

\* Faulty variant: reaching the end of the document already counts as running out.
advancePositionEarlyNull(pos, count) ==
    IF ~ValidLine(pos.line) THEN ThrowPos
    ELSE LET r == AdvanceLoop(pos.line, pos.character, count)
         IN IF r = EndOfDocument THEN NullPos ELSE r

\* advancePosition(pos, doc, count); doc.lineAt throws on a line that is not
\* in the document.
advancePosition(pos, count) ==
    IF ~ValidLine(pos.line) THEN ThrowPos
    ELSE AdvanceLoop(pos.line, pos.character, count)

(***************************************************************************)
(* iterCharDetails.                                                        *)
(***************************************************************************)
\* Faulty variant: the running byte offset grows by the logical character's bytes.
RECURSIVE CharDetailsLoopLogicalStep(_, _, _, _)
CharDetailsLoopLogicalStep(pieces, eolStyle, charOffset, byteOffset) ==
    IF pieces = <<>> THEN <<>>
    ELSE LET logicalChar == Head(pieces)
             physicalChars == IF logicalChar = <<LF>> /\ eolStyle = "CRLF"
                              THEN <<CR, LF>>
                              ELSE logicalChar
             bytes == BufferFrom(physicalChars)
         IN <<[char |-> logicalChar,
               byteOffset |-> byteOffset,
               charOffset |-> charOffset,
               codePoint |-> CodePointAt0(logicalChar),
               bytes |-> bytes,
               charCodes |-> Flatten(CodePoints(physicalChars))]>>
            \o CharDetailsLoopLogicalStep(Tail(pieces), eolStyle, charOffset + 1,
                                          byteOffset + Len(BufferFrom(logicalChar)))

\* Faulty variant: charCodes are taken from the logical character.
RECURSIVE CharDetailsLoopLogicalCodes(_, _, _, _)
CharDetailsLoopLogicalCodes(pieces, eolStyle, charOffset, byteOffset) ==
    IF pieces = <<>> THEN <<>>
    ELSE LET logicalChar == Head(pieces)
             physicalChars == IF logicalChar = <<LF>> /\ eolStyle = "CRLF"
                              THEN <<CR, LF>>
                              ELSE logicalChar
             bytes == BufferFrom(physicalChars)
         IN <<[char |-> logicalChar,
               byteOffset |-> byteOffset,
               charOffset |-> charOffset,
               codePoint |-> CodePointAt0(logicalChar),
               bytes |-> bytes,
               charCodes |-> logicalChar]>>
            \o CharDetailsLoopLogicalCodes(Tail(pieces), eolStyle, charOffset + 1,
                                           byteOffset + Len(bytes))

\* Faulty variant: char is the physical text of the character.
RECURSIVE CharDetailsLoopPhysicalChar(_, _, _, _)
CharDetailsLoopPhysicalChar(pieces, eolStyle, charOffset, byteOffset) ==
    IF pieces = <<>> THEN <<>>
    ELSE LET logicalChar == Head(pieces)
             physicalChars == IF logicalChar = <<LF>> /\ eolStyle = "CRLF"
                              THEN <<CR, LF>>
                              ELSE logicalChar
             bytes == BufferFrom(physicalChars)
         IN <<[char |-> physicalChars,
               byteOffset |-> byteOffset,
               charOffset |-> charOffset,
               codePoint |-> CodePointAt0(logicalChar),
               bytes |-> bytes,
               charCodes |-> Flatten(CodePoints(physicalChars))]>>
            \o CharDetailsLoopPhysicalChar(Tail(pieces), eolStyle, charOffset + 1,
                                           byteOffset + Len(bytes))

RECURSIVE CharDetailsLoop(_, _, _, _)
CharDetailsLoop(pieces, eolStyle, charOffset, byteOffset) ==
    IF pieces = <<>> THEN <<>>
    ELSE LET logicalChar == Head(pieces)
             physicalChars == IF logicalChar = <<LF>> /\ eolStyle = "CRLF"
                              THEN <<CR, LF>>
                              ELSE logicalChar
             bytes == BufferFrom(physicalChars)
         IN <<[char |-> logicalChar,
               byteOffset |-> byteOffset,
               charOffset |-> charOffset,
               codePoint |-> CodePointAt0(logicalChar),
               bytes |-> bytes,
               charCodes |-> Flatten(CodePoints(physicalChars))]>>
            \o CharDetailsLoop(Tail(pieces), eolStyle, charOffset + 1,
                               byteOffset + Len(bytes))

\* iterCharDetails(text, eol, startOffsets), as the sequence it yields
iterCharDetails(text, eolStyle, startOffsets) ==
    CharDetailsLoop(CodePoints(text), eolStyle, startOffsets.char, startOffsets.byte)

(***************************************************************************)
(* iterLineStartPositions.                                                 *)
(***************************************************************************)
\* Faulty variant: every terminator is taken to be one byte.
lineEndBytesLfOnly == IF eol = "CRLF" THEN 1 ELSE 1

lineEndBytes == IF eol = "CRLF" THEN 2 ELSE 1

\* Faulty variant: each option stops the other offset.
RECURSIVE LineStartsLoopSwapped(_, _, _, _, _)
LineStartsLoopSwapped(lineNum, byteOffset, charOffset, omitByteOffset, omitCharOffset) ==
    IF ~(lineNum < LineCount) THEN <<>>
    ELSE LET text == LineText(lineNum) IN
         <<[pos |-> Pos(lineNum, 0), text |-> text,
            byteOffset |-> byteOffset, charOffset |-> charOffset]>>
         \o LineStartsLoopSwapped(lineNum + 1,
                IF ~omitCharOffset
                THEN byteOffset + Len(BufferFrom(text)) + lineEndBytes
                ELSE byteOffset,
                IF ~omitByteOffset
                THEN charOffset + Len(CodePoints(text)) + 1
                ELSE charOffset,
                omitByteOffset, omitCharOffset)

RECURSIVE LineStartsLoop(_, _, _, _, _)
LineStartsLoop(lineNum, byteOffset, charOffset, omitByteOffset, omitCharOffset) ==
    IF ~(lineNum < LineCount) THEN <<>>
    ELSE LET text == LineText(lineNum) IN
         <<[pos |-> Pos(lineNum, 0), text |-> text,
            byteOffset |-> byteOffset, charOffset |-> charOffset]>>
         \o LineStartsLoop(lineNum + 1,
                IF ~omitByteOffset
                THEN byteOffset + Len(BufferFrom(text)) + lineEndBytes
                ELSE byteOffset,
                IF ~omitCharOffset
                THEN charOffset + Len(CodePoints(text)) + 1
                ELSE charOffset,
                omitByteOffset, omitCharOffset)

\* iterLineStartPositions(doc, options), as the sequence it yields
iterLineStartPositions(omitByteOffset, omitCharOffset) ==
    LineStartsLoop(0, 0, 0, omitByteOffset, omitCharOffset)

(***************************************************************************)
(* iterCharPositions.                                                      *)
(***************************************************************************)
\* The start used when no LineInfo is given.
DocStart == [pos |-> Pos(0, 0), byteOffset |-> 0, charOffset |-> 0]

\* Faulty variant: the character offset grows by the code units of the text passed.
RECURSIVE CharPositionsLoopUnits(_, _, _)
CharPositionsLoopUnits(pos, byteOffset, charOffset) ==
    LET nextPos == advancePosition(pos, 1) IN
    IF nextPos = ThrowPos
    THEN <<[char |-> <<>>, pos |-> ThrowPos,
            byteOffset |-> byteOffset, charOffset |-> charOffset]>>
    ELSE IF nextPos = NullPos
    THEN <<[char |-> <<>>, pos |-> pos,
            byteOffset |-> byteOffset, charOffset |-> charOffset]>>
    ELSE LET char == GetText(pos, nextPos) IN
         <<[char |-> char, pos |-> pos,
            byteOffset |-> byteOffset, charOffset |-> charOffset]>>
         \o CharPositionsLoopUnits(nextPos, byteOffset + Len(BufferFrom(char)),
                                   charOffset + Len(char))

\* Faulty variant: the byte offset grows by the code units of the text passed.
RECURSIVE CharPositionsLoopByteUnits(_, _, _)
CharPositionsLoopByteUnits(pos, byteOffset, charOffset) ==
    LET nextPos == advancePosition(pos, 1) IN
    IF nextPos = ThrowPos
    THEN <<[char |-> <<>>, pos |-> ThrowPos,
            byteOffset |-> byteOffset, charOffset |-> charOffset]>>
    ELSE IF nextPos = NullPos
    THEN <<[char |-> <<>>, pos |-> pos,
            byteOffset |-> byteOffset, charOffset |-> charOffset]>>
    ELSE LET char == GetText(pos, nextPos) IN
         <<[char |-> char, pos |-> pos,
            byteOffset |-> byteOffset, charOffset |-> charOffset]>>
         \o CharPositionsLoopByteUnits(nextPos, byteOffset + Len(char),
                                       charOffset + 1)

\* The while loop.  An exception of advancePosition ends the sequence with a
\* record at ThrowPos.
RECURSIVE CharPositionsLoop(_, _, _)
CharPositionsLoop(pos, byteOffset, charOffset) ==
    LET nextPos == advancePosition(pos, 1) IN
    IF nextPos = ThrowPos
    THEN <<[char |-> <<>>, pos |-> ThrowPos,
            byteOffset |-> byteOffset, charOffset |-> charOffset]>>
    ELSE IF nextPos = NullPos
    THEN <<[char |-> <<>>, pos |-> pos,
            byteOffset |-> byteOffset, charOffset |-> charOffset]>>
    ELSE LET char == GetText(pos, nextPos) IN
         <<[char |-> char, pos |-> pos,
            byteOffset |-> byteOffset, charOffset |-> charOffset]>>
         \o CharPositionsLoop(nextPos, byteOffset + Len(BufferFrom(char)),
                              charOffset + 1)

\* iterCharPositions(doc, start), as the sequence it yields
iterCharPositions(start) ==
    CharPositionsLoop(start.pos, start.byteOffset, start.charOffset)

(***************************************************************************)
(* peeking.                                                                *)
(***************************************************************************)
\* Each item holds `current`, and `next` unless it is the last one.
peeking(items) ==
    [i \in 1..Len(items) |->
        IF i < Len(items)
        THEN [current |-> items[i], next |-> items[i + 1]]
        ELSE [current |-> items[i]]]

HasNext(item) == "next" \in DOMAIN item

(***************************************************************************)
(* gotoByte and gotoChar.  The result lists the selections assigned to     *)
(* editor.selection, in order, and tells whether an exception escaped.     *)
(***************************************************************************)
NoAssignment == [assigned |-> <<>>, threw |-> FALSE]
Assigned(sel) == [assigned |-> <<sel>>, threw |-> FALSE]
Threw == [assigned |-> <<>>, threw |-> TRUE]

\* Faulty variant: the test for an exact hit is missing.
RECURSIVE GotoByteScanNoHit(_, _, _, _)
GotoByteScanNoHit(recs, k, prevPos, targetOffset) ==
    IF k > Len(recs) THEN NoAssignment
    ELSE IF recs[k].pos = ThrowPos THEN Threw
    ELSE IF recs[k].byteOffset > targetOffset
         THEN Assigned(Selection(IF prevPos # NullPos THEN prevPos ELSE recs[k].pos,
                                 recs[k].pos))
    ELSE GotoByteScanNoHit(recs, k + 1, recs[k].pos, targetOffset)

\* Faulty variant: a target inside a character snaps to the next boundary.
RECURSIVE GotoByteScanSnap(_, _, _, _)
GotoByteScanSnap(recs, k, prevPos, targetOffset) ==
    IF k > Len(recs) THEN NoAssignment
    ELSE IF recs[k].pos = ThrowPos THEN Threw
    ELSE IF recs[k].byteOffset >= targetOffset
         THEN Assigned(Selection(recs[k].pos, recs[k].pos))
    ELSE GotoByteScanSnap(recs, k + 1, recs[k].pos, targetOffset)

\* gotoByte's inner loop over iterCharPositions(doc, lineInfo.current)
\* Faulty variant: new vscode.Selection(prevPos, charInfo.pos) without the
\* fallback, which throws while prevPos is null.
RECURSIVE GotoByteScanNoFallback(_, _, _, _)
GotoByteScanNoFallback(recs, k, prevPos, targetOffset) ==
    IF k > Len(recs) THEN NoAssignment
    ELSE IF recs[k].pos = ThrowPos THEN Threw
    ELSE IF recs[k].byteOffset = targetOffset
         THEN Assigned(Selection(recs[k].pos, recs[k].pos))
    ELSE IF recs[k].byteOffset > targetOffset
         THEN IF prevPos = NullPos THEN Threw
              ELSE Assigned(Selection(prevPos, recs[k].pos))
    ELSE GotoByteScanNoFallback(recs, k + 1, recs[k].pos, targetOffset)

RECURSIVE GotoByteScan(_, _, _, _)
GotoByteScan(recs, k, prevPos, targetOffset) ==
    IF k > Len(recs) THEN NoAssignment
    ELSE IF recs[k].pos = ThrowPos THEN Threw
    ELSE IF recs[k].byteOffset = targetOffset
         THEN Assigned(Selection(recs[k].pos, recs[k].pos))
    ELSE IF recs[k].byteOffset > targetOffset
         THEN Assigned(Selection(IF prevPos # NullPos THEN prevPos ELSE recs[k].pos,
                                 recs[k].pos))
    ELSE GotoByteScan(recs, k + 1, recs[k].pos, targetOffset)

\* Faulty variant: the inner loop is left with break, so the later lines are scanned
\* and assign as well.
RECURSIVE GotoByteLinesBreak(_, _, _)
GotoByteLinesBreak(items, i, targetOffset) ==
    IF i > Len(items) THEN NoAssignment
    ELSE IF ~HasNext(items[i]) \/ items[i].next.byteOffset > targetOffset
         THEN LET r == GotoByteScan(iterCharPositions(items[i].current), 1,
                                    NullPos, targetOffset)
                  rest == GotoByteLinesBreak(items, i + 1, targetOffset)
              IN IF r.threw THEN r
                 ELSE [assigned |-> r.assigned \o rest.assigned, threw |-> rest.threw]
         ELSE GotoByteLinesBreak(items, i + 1, targetOffset)

\* gotoByte's outer loop over peeking(iterLineStartPositions(...))
RECURSIVE GotoByteLines(_, _, _)
GotoByteLines(items, i, targetOffset) ==
    IF i > Len(items) THEN NoAssignment
    ELSE IF ~HasNext(items[i]) \/ items[i].next.byteOffset > targetOffset
         THEN LET r == GotoByteScan(iterCharPositions(items[i].current), 1,
                                    NullPos, targetOffset)
              IN IF r.threw \/ r.assigned # <<>> THEN r
                 ELSE GotoByteLines(items, i + 1, targetOffset)
         ELSE GotoByteLines(items, i + 1, targetOffset)

\* gotoByte(editor, _, [targetOffset]) with a numeric targetOffset
gotoByte(targetOffset) ==
    GotoByteLines(peeking(iterLineStartPositions(FALSE, TRUE)), 1, targetOffset)

\* gotoByte as it was before the line table: one scan of the characters from
\* the start of the document, prevPos kept across the lines.
gotoBytePlain(targetOffset) ==
    GotoByteScan(iterCharPositions(DocStart), 1, NullPos, targetOffset)

\* Faulty variant: the first character beyond the target is taken.
RECURSIVE GotoCharScanBeyond(_, _, _)
GotoCharScanBeyond(recs, k, targetOffset) ==
    IF k > Len(recs) THEN NoAssignment
    ELSE IF recs[k].pos = ThrowPos THEN Threw
    ELSE IF recs[k].charOffset > targetOffset
         THEN Assigned(Selection(recs[k].pos, recs[k].pos))
    ELSE GotoCharScanBeyond(recs, k + 1, targetOffset)

\* gotoChar's inner loop
RECURSIVE GotoCharScan(_, _, _)
GotoCharScan(recs, k, targetOffset) ==
    IF k > Len(recs) THEN NoAssignment
    ELSE IF recs[k].pos = ThrowPos THEN Threw
    ELSE IF recs[k].charOffset >= targetOffset
         THEN Assigned(Selection(recs[k].pos, recs[k].pos))
    ELSE GotoCharScan(recs, k + 1, targetOffset)

\* gotoChar's outer loop
RECURSIVE GotoCharLines(_, _, _)
GotoCharLines(items, i, targetOffset) ==
    IF i > Len(items) THEN NoAssignment
    ELSE IF ~HasNext(items[i]) \/ items[i].next.charOffset > targetOffset
         THEN LET r == GotoCharScan(iterCharPositions(items[i].current), 1,
                                    targetOffset)
              IN IF r.threw \/ r.assigned # <<>> THEN r
                 ELSE GotoCharLines(items, i + 1, targetOffset)
         ELSE GotoCharLines(items, i + 1, targetOffset)

\* gotoChar(editor, _, [targetOffset]) with a numeric targetOffset
gotoChar(targetOffset) ==
    GotoCharLines(peeking(iterLineStartPositions(TRUE, FALSE)), 1, targetOffset)

(***************************************************************************)
(* The state machine: a document is opened, and one command or one         *)
(* enumeration runs on it.                                                 *)
(***************************************************************************)
Symbols == DocChars \cup {Break}
Texts == UNION {[1..n -> Symbols] : n \in 0..MaxChars}

\* The lines of a generated text: split at every Break.
RECURSIVE SplitLines(_, _)
SplitLines(t, cur) ==
    IF t = <<>> THEN <<cur>>
    ELSE IF Head(t) = Break THEN <<cur>> \o SplitLines(Tail(t), <<>>)
    ELSE SplitLines(Tail(t), cur \o Head(t))

\* Totals of the document, as the character scan from its start counts them.
ScanAll == iterCharPositions(DocStart)
TotalBytes == ScanAll[Len(ScanAll)].byteOffset
TotalChars == ScanAll[Len(ScanAll)].charOffset

NoOp == [op |-> "none"]
Idle == last.op = "none"

Init ==
    /\ \E t \in Texts : lines = SplitLines(t, <<>>)
    /\ eol \in {"LF", "CRLF"}
    /\ selections \in {<<Cursor(Pos(0, 0))>>,
                       <<Selection(Pos(0, 0), EndOfDocument), Cursor(EndOfDocument)>>}
    /\ last = NoOp
    /\ out = <<>>

\* editor.selection = s replaces every selection of the editor by s.
Assign(r) == IF r.assigned = <<>> THEN selections ELSE <<r.assigned[Len(r.assigned)]>>

GotoByte(t) ==
    /\ Idle
    /\ LET r == gotoByte(t) IN
        /\ selections' = Assign(r)
        /\ last' = [op |-> "gotoByte", target |-> t, before |-> Len(selections),
                    nassign |-> Len(r.assigned), threw |-> r.threw]
    /\ UNCHANGED <<lines, eol, out>>

GotoChar(t) ==
    /\ Idle
    /\ LET r == gotoChar(t) IN
        /\ selections' = Assign(r)
        /\ last' = [op |-> "gotoChar", target |-> t, before |-> Len(selections),
                    nassign |-> Len(r.assigned), threw |-> r.threw]
    /\ UNCHANGED <<lines, eol, out>>

IterLineStartPositions(omitB, omitC) ==
    /\ Idle
    /\ out' = iterLineStartPositions(omitB, omitC)
    /\ last' = [op |-> "iterLineStartPositions", omitByteOffset |-> omitB,
                omitCharOffset |-> omitC, converted |-> FALSE]
    /\ UNCHANGED <<lines, eol, selections>>

\* from = 0: no start given; from = i + 1: the LineInfo of line i is given.
IterCharPositions(from) ==
    /\ Idle
    /\ out' = iterCharPositions(IF from = 0 THEN DocStart
                                ELSE iterLineStartPositions(FALSE, FALSE)[from])
    /\ last' = [op |-> "iterCharPositions", from |-> from, converted |-> FALSE]
    /\ UNCHANGED <<lines, eol, selections>>

StartOffsets == {[char |-> 0, byte |-> 0], [char |-> 2, byte |-> 3]}

\* iterCharDetails on the whole text of the document as getDocText gives it.
IterCharDetails(start) ==
    /\ Idle
    /\ out' = iterCharDetails(getDocText(Pos(0, 0), EndOfDocument, -1).text, eol, start)
    /\ last' = [op |-> "iterCharDetails", start |-> start]
    /\ UNCHANGED <<lines, eol, selections>>

\* The host converts the line endings of the document (LF <-> CRLF, the lines
\* themselves unchanged) after an enumeration; `out` keeps what was
\* enumerated before the conversion.
ConvertEol ==
    /\ last.op \in {"iterLineStartPositions", "iterCharPositions"}
    /\ ~last.converted
    /\ eol' = IF eol = "LF" THEN "CRLF" ELSE "LF"
    /\ last' = [last EXCEPT !.converted = TRUE]
    /\ UNCHANGED <<lines, selections, out>>

Next ==
    \/ Idle /\ \E t \in -1..(TotalBytes + 1) : GotoByte(t)
    \/ Idle /\ \E t \in -1..(TotalChars + 1) : GotoChar(t)
    \/ \E omitB \in BOOLEAN, omitC \in BOOLEAN : IterLineStartPositions(omitB, omitC)
    \/ \E from \in 0..LineCount : IterCharPositions(from)
    \/ \E start \in StartOffsets : IterCharDetails(start)
    \/ ConvertEol

Spec == Init /\ [][Next]_vars

(***************************************************************************)
(* The go-to commands run without a numeric argument: the offset is typed  *)
(* into an input box and read with Number.parseInt.  Typed text is a       *)
(* sequence of one-character strings.                                      *)
(***************************************************************************)
MaxInput == 3

DecimalDigits == <<"0", "1", "2", "3", "4", "5", "6", "7", "8", "9">>
LowerHexDigits == DecimalDigits \o <<"a", "b", "c", "d", "e", "f">>
UpperHexDigits == DecimalDigits \o <<"A", "B", "C", "D", "E", "F">>

\* The value of a digit character; -1 for any other character.
DigitValue(c) ==
    IF \E i \in 1..Len(LowerHexDigits) : LowerHexDigits[i] = c
    THEN (CHOOSE i \in 1..Len(LowerHexDigits) : LowerHexDigits[i] = c) - 1
    ELSE IF \E i \in 1..Len(UpperHexDigits) : UpperHexDigits[i] = c
    THEN (CHOOSE i \in 1..Len(UpperHexDigits) : UpperHexDigits[i] = c) - 1
    ELSE -1

IsDigit(c, radix) == DigitValue(c) >= 0 /\ DigitValue(c) < radix

\* The longest prefix of s made of digits of the radix.
RECURSIVE DigitsPrefix(_, _)
DigitsPrefix(s, radix) ==
    IF s = <<>> \/ ~IsDigit(Head(s), radix) THEN <<>>
    ELSE <<Head(s)>> \o DigitsPrefix(Tail(s), radix)

RECURSIVE NumberValue(_, _)
NumberValue(z, radix) ==
    IF z = <<>> THEN 0
    ELSE NumberValue(SubSeq(z, 1, Len(z) - 1), radix) * radix + DigitValue(z[Len(z)])

RECURSIVE TrimStart(_)
TrimStart(s) == IF s # <<>> /\ Head(s) = " " THEN TrimStart(Tail(s)) ELSE s

NaN == [nan |-> TRUE, value |-> 0]
Number(v) == [nan |-> FALSE, value |-> v]

\* Number.parseInt(text) without a radix: leading white space, a sign, an
\* optional 0x, then the longest run of digits; whatever follows is ignored.
NumberParseInt(text) ==
    LET trimmed == TrimStart(text)
        signed == trimmed # <<>> /\ Head(trimmed) \in {"+", "-"}
        sign == IF signed /\ Head(trimmed) = "-" THEN -1 ELSE 1
        unsigned == IF signed THEN Tail(trimmed) ELSE trimmed
        hex == Len(unsigned) >= 2 /\ unsigned[1] = "0" /\ unsigned[2] \in {"x", "X"}
        radix == IF hex THEN 16 ELSE 10
        z == DigitsPrefix(IF hex THEN SubSeq(unsigned, 3, Len(unsigned)) ELSE unsigned,
                          radix)
    IN IF z = <<>> THEN NaN ELSE Number(sign * NumberValue(z, radix))

\* What showInputBox resolves to: the typed text, or undefined when the box
\* is dismissed.
Typed(text) == [cancelled |-> FALSE, text |-> text]
Dismissed == [cancelled |-> TRUE, text |-> <<>>]

\* Number.parseInt(input!): undefined reads as the text "undefined".
ParsedInput(input) ==
    IF input.cancelled THEN NumberParseInt(<<"u", "n", "d", "e", "f", "i", "n", "e", "d">>)
    ELSE NumberParseInt(input.text)

\* gotoByte(editor) and gotoChar(editor) with no numeric argument.  Every
\* comparison with NaN is false: the loops end without an assignment.
gotoByteInput(input) ==
    LET targetOffset == ParsedInput(input)
    IN IF targetOffset.nan THEN NoAssignment ELSE gotoByte(targetOffset.value)

gotoCharInput(input) ==
    LET targetOffset == ParsedInput(input)
    IN IF targetOffset.nan THEN NoAssignment ELSE gotoChar(targetOffset.value)

\* The commands hold no statement that shows a message.
GotoByteInput(input) ==
    /\ Idle
    /\ LET r == gotoByteInput(input) IN
        /\ selections' = Assign(r)
        /\ last' = [op |-> "gotoByteInput", input |-> input, selBefore |-> selections,
                    nassign |-> Len(r.assigned)]
    /\ UNCHANGED <<lines, eol, out>>

GotoCharInput(input) ==
    /\ Idle
    /\ LET r == gotoCharInput(input) IN
        /\ selections' = Assign(r)
        /\ last' = [op |-> "gotoCharInput", input |-> input, selBefore |-> selections,
                    nassign |-> Len(r.assigned)]
    /\ UNCHANGED <<lines, eol, out>>

TypedChars == {"1", "2", "a", "x", "0", "-"}
Inputs ==
    {Dismissed} \cup {Typed(t) : t \in UNION {[1..n -> TypedChars] : n \in 0..MaxInput}}

(***************************************************************************)
(* The documents of the test suite: the lines "a", "b..x", "c", with LF    *)
(* (unix.txt) or CRLF (windows.txt) terminators.  The second line is the   *)
(* five code points b, U+00E6, U+03A9, U+1F600, x, or those with U+001B    *)
(* after the b as in the suite's text.                                     *)
(***************************************************************************)
ScenarioLines == <<<<97>>, <<98, 230, 937, 55357, 56832, 120>>, <<99>>>>
FixtureLines == <<<<97>>, <<98, 27, 230, 937, 55357, 56832, 120>>, <<99>>>>

InitScenario ==
    /\ lines \in {ScenarioLines, FixtureLines}
    /\ eol \in {"LF", "CRLF"}
    /\ selections \in {<<Cursor(Pos(0, 0))>>,
                       <<Selection(Pos(0, 0), EndOfDocument), Cursor(EndOfDocument)>>}
    /\ last = NoOp
    /\ out = <<>>

NextScenario ==
    \/ Next
    \/ \E input \in Inputs : GotoByteInput(input)
    \/ \E input \in Inputs : GotoCharInput(input)

SpecScenario == InitScenario /\ [][NextScenario]_vars

(***************************************************************************)
(* parseOffset and parseCodePoint.  The suite calls them and the README    *)
(* describes the notations; they are modelled from that description.       *)
(***************************************************************************)
ParseFailed == [failed |-> TRUE, isRelative |-> FALSE, value |-> 0]
ParsedOffset(isRelative, value) ==
    [failed |-> FALSE, isRelative |-> isRelative, value |-> value]

AllDigits(z, radix) == z # <<>> /\ \A i \in 1..Len(z) : IsDigit(z[i], radix)

\* Faulty variant: the sign marks the offset as relative and is otherwise dropped.
parseOffsetSignDropped(input) ==
    LET signed == input # <<>> /\ Head(input) \in {"+", "-"}
        body == IF signed THEN Tail(input) ELSE input
        hex == Len(body) >= 2 /\ body[1] = "0" /\ body[2] = "x"
        digits == IF hex THEN SubSeq(body, 3, Len(body)) ELSE body
        radix == IF hex THEN 16 ELSE 10
    IN IF ~AllDigits(digits, radix) THEN ParseFailed
       ELSE ParsedOffset(signed, NumberValue(digits, radix))

\* parseOffset(input): an optional + or - (relative; - negates), then a
\* decimal integer or 0x and a hexadecimal integer; anything else fails.
parseOffset(input) ==
    LET signed == input # <<>> /\ Head(input) \in {"+", "-"}
        sign == IF signed /\ Head(input) = "-" THEN -1 ELSE 1
        body == IF signed THEN Tail(input) ELSE input
        hex == Len(body) >= 2 /\ body[1] = "0" /\ body[2] = "x"
        digits == IF hex THEN SubSeq(body, 3, Len(body)) ELSE body
        radix == IF hex THEN 16 ELSE 10
    IN IF ~AllDigits(digits, radix) THEN ParseFailed
       ELSE ParsedOffset(signed, sign * NumberValue(digits, radix))

CodePointFailed == [failed |-> TRUE, value |-> 0]
ParsedCodePoint(value) == [failed |-> FALSE, value |-> value]

\* The prefixes that announce hexadecimal digits: 0x, \x, \u and U+.
HexPrefixes == {<<"0", "x">>, <<"\\", "x">>, <<"\\", "u">>, <<"U", "+">>}

\* Faulty variant: the digits after a prefix are read as decimal.
parseCodePointDecimalOnly(input) ==
    LET hex == Len(input) >= 2 /\ SubSeq(input, 1, 2) \in HexPrefixes
        digits == IF hex THEN SubSeq(input, 3, Len(input)) ELSE input
    IN IF ~AllDigits(digits, IF hex THEN 16 ELSE 10) THEN CodePointFailed
       ELSE ParsedCodePoint(NumberValue(digits, 10))

\* parseCodePoint(input): a decimal integer, or one of the prefixes and a
\* hexadecimal integer; anything else fails.
parseCodePoint(input) ==
    LET hex == Len(input) >= 2 /\ SubSeq(input, 1, 2) \in HexPrefixes
        digits == IF hex THEN SubSeq(input, 3, Len(input)) ELSE input
        radix == IF hex THEN 16 ELSE 10
    IN IF ~AllDigits(digits, radix) THEN CodePointFailed
       ELSE ParsedCodePoint(NumberValue(digits, radix))

\* The inputs of the suite's parseOffset and parseCodePoint tests, and the
\* README's notations of the letter A.
SuiteOffsetInputs ==
    {<<"1", "0">>, <<"0", "x", "0", "a">>, <<"+", "1", "0">>,
     <<"+", "0", "x", "0", "a">>, <<"-", "1", "0">>, <<"-", "0", "x", "0", "a">>}
SuiteCodePointInputs ==
    {<<"1", "0">>, <<"0", "x", "0", "a">>, <<"\\", "u", "0", "a">>,
     <<"\\", "x", "0", "a">>, <<"U", "+", "0", "a">>,
     <<"6", "5">>, <<"0", "x", "4", "1">>, <<"\\", "u", "4", "1">>,
     <<"\\", "x", "4", "1">>, <<"U", "+", "4", "1">>}

OffsetChars == {"+", "-", "0", "1", "a", "x"}
OffsetInputs ==
    SuiteOffsetInputs \cup UNION {[1..n -> OffsetChars] : n \in 0..MaxInput}
CodePointChars == {"0", "1", "a", "x", "u", "U", "+", "\\", "-"}
CodePointInputs ==
    SuiteCodePointInputs \cup UNION {[1..n -> CodePointChars] : n \in 0..MaxInput}

\* The parsers read no document: an empty one is open.
InitParse ==
    /\ lines = <<<<>>>>
    /\ eol = "LF"
    /\ selections = <<Cursor(Pos(0, 0))>>
    /\ last = NoOp
    /\ out = <<>>

ParseOffset(input) ==
    /\ Idle
    /\ out' = parseOffset(input)
    /\ last' = [op |-> "parseOffset", input |-> input]
    /\ UNCHANGED <<lines, eol, selections>>

ParseCodePoint(input) ==
    /\ Idle
    /\ out' = parseCodePoint(input)
    /\ last' = [op |-> "parseCodePoint", input |-> input]
    /\ UNCHANGED <<lines, eol, selections>>

NextParse ==
    \/ \E input \in OffsetInputs : ParseOffset(input)
    \/ \E input \in CodePointInputs : ParseCodePoint(input)

SpecParse == InitParse /\ [][NextParse]_vars

(***************************************************************************)
(* The go-to commands run with an offset argument {isRelative, value}, as  *)
(* the suite calls them.  The resolution of a relative offset is modelled  *)
(* from its description: value is added to the offset of the cursor, in    *)
(* bytes for gotoByte and in characters for gotoChar.                      *)
(***************************************************************************)
Absolute(v) == [isRelative |-> FALSE, value |-> v]
Relative(d) == [isRelative |-> TRUE, value |-> d]

ResolveOffset(arg, anchor) == IF arg.isRelative THEN anchor + arg.value ELSE arg.value

\* The offsets of the cursor: of the active end of editor.selection.
CursorOffsets == getOffsets(selections[1].active)

gotoByteArg(arg) == gotoByte(ResolveOffset(arg, CursorOffsets.byte))
gotoCharArg(arg) == gotoChar(ResolveOffset(arg, CursorOffsets.char))

gotoArg(kind, arg) == IF kind = "byte" THEN gotoByteArg(arg) ELSE gotoCharArg(arg)

\* A document is open with the cursor at its start.
InitRel ==
    /\ \E t \in Texts : lines = SplitLines(t, <<>>)
    /\ eol \in {"LF", "CRLF"}
    /\ selections = <<Cursor(Pos(0, 0))>>
    /\ last = NoOp
    /\ out = <<>>

\* ext.gotoByte / ext.gotoChar (editor, undefined, [{isRelative: false, value: s}])
GotoAbsolute(kind, s) ==
    /\ Idle
    /\ LET r == gotoArg(kind, Absolute(s)) IN
        /\ selections' = Assign(r)
        /\ last' = [op |-> "absolute", kind |-> kind, s |-> s, d |-> 0,
                    init |-> selections, mid |-> Assign(r)]
    /\ UNCHANGED <<lines, eol, out>>

\* ext.gotoByte / ext.gotoChar (editor, undefined, [{isRelative: true, value: d}]),
\* after the absolute go-to of the same kind
GotoRelative(d) ==
    /\ last.op = "absolute"
    /\ LET r == gotoArg(last.kind, Relative(d)) IN
        /\ selections' = Assign(r)
        /\ last' = [last EXCEPT !.op = "relative", !.d = d]
    /\ UNCHANGED <<lines, eol, out>>

NextRel ==
    \/ Idle /\ \E s \in 0..(TotalBytes + 1) : GotoAbsolute("byte", s)
    \/ Idle /\ \E s \in 0..(TotalChars + 1) : GotoAbsolute("char", s)
    \/ \E d \in -2..2 : GotoRelative(d)

SpecRel == InitRel /\ [][NextRel]_vars

(***************************************************************************)
(* showCharInfo, up to the details it lists: the text of the selection is  *)
(* read with getDocText and decomposed with iterCharDetails.  The length   *)
(* limit, 1000 in the source, is a parameter, so that short documents      *)
(* reach it.                                                               *)
(***************************************************************************)
\* range.with({ end: advancePosition(range.start, doc)! }) for an empty
\* selection; with no next position the range stays as it is.
CharInfoRange ==
    LET sel == selections[1]
        next == advancePosition(SelStart(sel), 1)
    IN IF IsEmpty(sel) /\ next # NullPos /\ next # ThrowPos
       THEN [start |-> SelStart(sel), end |-> next]
       ELSE [start |-> SelStart(sel), end |-> SelEnd(sel)]

showCharInfo(maxLength) ==
    LET range == CharInfoRange
        got == getDocText(range.start, range.end, maxLength)
    IN [threw |-> got.threw,
        text |-> got.text,
        details |-> IF got.threw THEN <<>>
                    ELSE iterCharDetails(got.text, eol, getOffsets(range.start))]

\* The positions a selection can have its ends at.
RECURSIVE LinePositions(_, _)
LinePositions(lineNum, colNum) ==
    IF colNum >= Len(LineText(lineNum)) THEN {Pos(lineNum, colNum)}
    ELSE {Pos(lineNum, colNum)}
         \cup LinePositions(lineNum,
                            IF IsHigh(LineText(lineNum)[colNum + 1]) THEN colNum + 2
                            ELSE colNum + 1)

CharacterPositions == UNION {LinePositions(n, 0) : n \in 0..(LineCount - 1)}

\* A document is open and some text of it is selected, or none.
InitText ==
    /\ \E t \in Texts : lines = SplitLines(t, <<>>)
    /\ eol \in {"LF", "CRLF"}
    /\ \E a \in CharacterPositions, b \in CharacterPositions :
        /\ ~PosBefore(b, a)
        /\ selections = <<Selection(a, b)>>
    /\ last = NoOp
    /\ out = <<>>

ShowCharInfo(maxLength) ==
    /\ Idle
    /\ LET r == showCharInfo(maxLength) IN
        /\ out' = r.details
        /\ last' = [op |-> "showCharInfo", range |-> CharInfoRange,
                    maxLength |-> maxLength, threw |-> r.threw, text |-> r.text]
    /\ UNCHANGED <<lines, eol, selections>>

NextText == \E maxLength \in -1..(MaxChars + 1) : ShowCharInfo(maxLength)

SpecText == InitText /\ [][NextText]_vars

(***************************************************************************)
(* advancePosition and getOffsets called on their own, and the go-to       *)
(* commands with a target before the start of the document.                *)
(***************************************************************************)
\* The positions of the document: every column of every line, the end of
\* the line included.
ValidPositions ==
    UNION {{Pos(n, c) : c \in 0..Len(LineText(n))} : n \in 0..(LineCount - 1)}

AdvancePosition(pos, count) ==
    /\ Idle
    /\ out' = <<advancePosition(pos, count)>>
    /\ last' = [op |-> "advancePosition", pos |-> pos, count |-> count]
    /\ UNCHANGED <<lines, eol, selections>>

GetOffsets(pos) ==
    /\ Idle
    /\ out' = <<getOffsets(pos)>>
    /\ last' = [op |-> "getOffsets", pos |-> pos]
    /\ UNCHANGED <<lines, eol, selections>>

\* A document is open; a selection and a cursor are away from its start.
InitPos ==
    /\ \E t \in Texts : lines = SplitLines(t, <<>>)
    /\ eol \in {"LF", "CRLF"}
    /\ selections = <<Selection(Pos(0, 0), EndOfDocument), Cursor(EndOfDocument)>>
    /\ last = NoOp
    /\ out = <<>>

NextPos ==
    \/ \E pos \in ValidPositions, count \in 0..(MaxChars + 2) : AdvancePosition(pos, count)
    \/ \E pos \in ValidPositions : GetOffsets(pos)
    \/ Idle /\ \E t \in -3..-1 : GotoByte(t)
    \/ Idle /\ \E t \in -3..-1 : GotoChar(t)

SpecPos == InitPos /\ [][NextPos]_vars

(***************************************************************************)
(* Documents whose lines are arbitrary code units: a surrogate may stand   *)
(* alone.                                                                  *)
(***************************************************************************)
RawSymbols == {<<97>>, <<55357, 56832>>, <<55357>>, <<56832>>, Break}
RawTexts == UNION {[1..n -> RawSymbols] : n \in 0..MaxChars}

InitRaw ==
    /\ \E t \in RawTexts : lines = SplitLines(t, <<>>)
    /\ eol \in {"LF", "CRLF"}
    /\ selections = <<Cursor(Pos(0, 0))>>
    /\ last = NoOp
    /\ out = <<>>

NextRaw ==
    \/ \E pos \in ValidPositions, count \in 0..(MaxChars + 2) : AdvancePosition(pos, count)
    \/ \E omitB \in BOOLEAN, omitC \in BOOLEAN : IterLineStartPositions(omitB, omitC)
    \/ \E from \in 0..LineCount : IterCharPositions(from)

SpecRaw == InitRaw /\ [][NextRaw]_vars

(***************************************************************************)
(* Measures used to state the properties, computed from the document's     *)
(* lines alone.  Documents here are texts of Unicode scalar values: every  *)
(* surrogate code unit is half of a well-formed pair.                      *)
(***************************************************************************)
\* UTF-8 bytes a code unit accounts for (a surrogate pair: 2 + 2 = 4).
UnitBytes(u) ==
    IF u < 128 THEN 1
    ELSE IF u < 2048 THEN 2
    ELSE IF IsHigh(u) \/ IsLow(u) THEN 2
    ELSE 3

RECURSIVE ByteLength(_)
ByteLength(text) ==
    IF text = <<>> THEN 0 ELSE UnitBytes(Head(text)) + ByteLength(Tail(text))

\* Number of code points of a text.
CodePointCount(text) == Cardinality({i \in 1..Len(text) : ~IsLow(text[i])})

\* The UTF-8 encoding of the code points that occur in documents.
ExpectedUtf8(cp) ==
    CASE cp = 97 -> <<97>>
      [] cp = 230 -> <<195, 166>>
      [] cp = 8364 -> <<226, 130, 172>>
      [] cp = 128512 -> <<240, 159, 152, 128>>
      [] OTHER -> <<>>

\* The positions at which a logical character of the document starts, and
\* the end of the document.
LogicalPositions ==
    {Pos(i, c) : i \in 0..(LineCount - 1), c \in 0..MaxChars * 2} \cap
    {p \in [line : 0..(LineCount - 1), character : 0..MaxChars * 2] :
        /\ p.character <= Len(LineText(p.line))
        /\ (p.character < Len(LineText(p.line))
                => ~IsLow(LineText(p.line)[p.character + 1]))}

\* The position of the k-th logical character (k = 1 is the first one).
KthPosition(k) ==
    CHOOSE p \in LogicalPositions :
        Cardinality({q \in LogicalPositions : PosBefore(q, p)}) = k - 1

\* The decomposition of the whole, normalized text of the document.
DocDetails ==
    iterCharDetails(getDocText(Pos(0, 0), EndOfDocument, -1).text, eol,
                    [char |-> 0, byte |-> 0])

IsGoto == last.op \in {"gotoByte", "gotoChar"}
Total == IF last.op = "gotoByte" THEN TotalBytes ELSE TotalChars

(***************************************************************************)
(* C1: after gotoByte(b), where b is the byteOffset of a record that       *)
(* iterCharPositions yields for the document (the terminal record          *)
(* included), the editor holds one selection, which is empty and sits at   *)
(* that record's position.                                                 *)
(***************************************************************************)
C1_ByteOnBoundary ==
    \A k \in 1..Len(ScanAll) :
        (last.op = "gotoByte" /\ last.target = ScanAll[k].byteOffset)
            => selections = <<Cursor(ScanAll[k].pos)>>

\* gotoByte has hit the boundary after a 4-byte character in the second line.
C1_Witness ==
    /\ last.op = "gotoByte"
    /\ \E k \in 2..Len(ScanAll) :
        /\ last.target = ScanAll[k].byteOffset
        /\ Len(BufferFrom(ScanAll[k - 1].char)) = 4
        /\ ScanAll[k].pos.line = 1
        /\ selections = <<Cursor(ScanAll[k].pos)>>

(***************************************************************************)
(* C2: after gotoByte(b), where b lies strictly inside the encoding of one *)
(* logical character (a 2-, 3- or 4-byte code point or a CRLF terminator), *)
(* the editor holds one non-empty selection from that character's position *)
(* to the position of the next logical character; for a CRLF terminator    *)
(* that is from (line i, line length) to (line i + 1, 0).                  *)
(***************************************************************************)
C2_ByteInsideCharacter ==
    \A k \in 1..(Len(ScanAll) - 1) :
        (/\ last.op = "gotoByte"
         /\ ScanAll[k].byteOffset < last.target
         /\ last.target < ScanAll[k + 1].byteOffset)
            => /\ Len(selections) = 1
               /\ ~IsEmpty(selections[1])
               /\ SelStart(selections[1]) = ScanAll[k].pos
               /\ SelEnd(selections[1]) = ScanAll[k + 1].pos
               /\ SelStart(selections[1]) = KthPosition(k)
               /\ SelEnd(selections[1]) = KthPosition(k + 1)
               /\ ScanAll[k].char = <<CR, LF>>
                    => /\ SelStart(selections[1]).character
                            = Len(LineText(SelStart(selections[1]).line))
                       /\ SelEnd(selections[1])
                            = Pos(SelStart(selections[1]).line + 1, 0)

\* gotoByte has selected the CRLF terminator of the first line.
C2_Witness ==
    /\ last.op = "gotoByte"
    /\ eol = "CRLF"
    /\ LineCount >= 2
    /\ last.target = ByteLength(LineText(0)) + 1
    /\ selections = <<Selection(Pos(0, Len(LineText(0))), Pos(1, 0))>>

(***************************************************************************)
(* C3: after gotoChar(c) with 0 <= c <= total character count, the editor  *)
(* holds one selection, which is empty and sits at the position whose      *)
(* charOffset, as iterCharPositions enumerates it, is the smallest one     *)
(* that is >= c.                                                           *)
(***************************************************************************)
C3_CharInRange ==
    (last.op = "gotoChar" /\ 0 <= last.target /\ last.target <= TotalChars)
        => \E k \in 1..Len(ScanAll) :
            /\ ScanAll[k].charOffset >= last.target
            /\ \A j \in 1..Len(ScanAll) :
                ScanAll[j].charOffset >= last.target
                    => ScanAll[j].charOffset >= ScanAll[k].charOffset
            /\ selections = <<Cursor(ScanAll[k].pos)>>
            /\ IsEmpty(selections[1])

\* gotoChar has placed the cursor behind a surrogate pair in the second line.
C3_Witness ==
    /\ last.op = "gotoChar"
    /\ 0 <= last.target /\ last.target <= TotalChars
    /\ Len(selections) = 1
    /\ selections[1].active.line = 1
    /\ selections[1].active.character = 2
    /\ IsHigh(LineText(1)[1])

(***************************************************************************)
(* C4: after gotoByte or gotoChar with a target greater than the           *)
(* document's total length (bytes, respectively characters), the editor    *)
(* holds one empty selection at the end of the document, whatever it held  *)
(* before.                                                                 *)
(***************************************************************************)
C4_PastEndGoesToEnd ==
    (IsGoto /\ last.target > Total) => selections = <<Cursor(EndOfDocument)>>

(***************************************************************************)
(* C5: gotoByte and gotoChar with an in-range target (0 <= target <= total *)
(* length) do not throw and assign the selection exactly once; afterwards  *)
(* the editor holds exactly one selection, however many it held before.    *)
(***************************************************************************)
C5_OneAssignment ==
    (IsGoto /\ 0 <= last.target /\ last.target <= Total)
        => /\ ~last.threw
           /\ last.nassign = 1
           /\ Len(selections) = 1

\* A go-to in a document of several lines has replaced two selections by one.
C5_Witness ==
    /\ IsGoto
    /\ 0 < last.target /\ last.target <= Total
    /\ last.before = 2
    /\ LineCount >= 2
    /\ last.nassign = 1
    /\ Len(selections) = 1

(***************************************************************************)
(* C6: iterLineStartPositions with nothing omitted yields one LineInfo per *)
(* line, in line order, the first at offsets (0, 0); from one entry to the *)
(* next the charOffset grows by the code points of the line plus 1 and the *)
(* byteOffset by the UTF-8 length of the line plus 2 (CRLF) or 1 (LF).     *)
(***************************************************************************)
C6_LineTableRecurrence ==
    (/\ last.op = "iterLineStartPositions"
     /\ ~last.omitByteOffset /\ ~last.omitCharOffset /\ ~last.converted)
        => /\ Len(out) = LineCount
           /\ \A i \in 1..Len(out) :
                /\ out[i].pos = Pos(i - 1, 0)
                /\ out[i].text = lines[i]
           /\ out[1].byteOffset = 0
           /\ out[1].charOffset = 0
           /\ \A i \in 2..Len(out) :
                /\ out[i].charOffset
                     = out[i - 1].charOffset + CodePointCount(lines[i - 1]) + 1
                /\ out[i].byteOffset
                     = out[i - 1].byteOffset + ByteLength(lines[i - 1])
                        + (IF eol = "CRLF" THEN 2 ELSE 1)

\* The line table of a CRLF document with a multi-byte first line.
C6_Witness ==
    /\ last.op = "iterLineStartPositions"
    /\ ~last.omitByteOffset /\ ~last.omitCharOffset /\ ~last.converted
    /\ eol = "CRLF"
    /\ Len(out) >= 2
    /\ out[2].byteOffset > out[2].charOffset + 1

(***************************************************************************)
(* C7: for two documents with the same lines, one LF and one CRLF,         *)
(* iterLineStartPositions and iterCharPositions yield the same charOffset  *)
(* in corresponding records, and the CRLF byteOffset is the LF byteOffset  *)
(* plus the number of line terminators before the record.  `out` is the    *)
(* enumeration of the document before its line endings were converted.     *)
(***************************************************************************)
C7_LineEndingIndependence ==
    (/\ last.op \in {"iterLineStartPositions", "iterCharPositions"}
     /\ last.converted
     /\ last.op = "iterLineStartPositions"
            => (~last.omitByteOffset /\ ~last.omitCharOffset)
     /\ last.op = "iterCharPositions" => last.from = 0)
        => LET now == IF last.op = "iterLineStartPositions"
                      THEN iterLineStartPositions(FALSE, FALSE)
                      ELSE iterCharPositions(DocStart)
               crlf == IF eol = "CRLF" THEN now ELSE out
               lf == IF eol = "CRLF" THEN out ELSE now
           IN /\ Len(crlf) = Len(lf)
              /\ \A k \in 1..Len(lf) :
                    /\ crlf[k].pos = lf[k].pos
                    /\ crlf[k].charOffset = lf[k].charOffset
                    /\ crlf[k].byteOffset = lf[k].byteOffset + lf[k].pos.line

\* The character scan of a document of two lines or more, made under both
\* line-ending styles.
C7_Witness ==
    /\ last.op = "iterCharPositions"
    /\ last.from = 0
    /\ last.converted
    /\ LineCount >= 2
    /\ Len(out) >= 3
    /\ out[Len(out)].byteOffset # iterCharPositions(DocStart)[Len(out)].byteOffset

(***************************************************************************)
(* C8: round trip.  For the k-th record r that iterCharDetails yields for  *)
(* the whole normalized text of the document (the document's line-ending   *)
(* style, start offsets (0, 0)), gotoByte(r.byteOffset) and                *)
(* gotoChar(r.charOffset) each leave one empty selection at the position   *)
(* of the k-th logical character of the document.                          *)
(***************************************************************************)
C8_RoundTrip ==
    \A k \in 1..Len(DocDetails) :
        (\/ last.op = "gotoByte" /\ last.target = DocDetails[k].byteOffset
         \/ last.op = "gotoChar" /\ last.target = DocDetails[k].charOffset)
            => selections = <<Cursor(KthPosition(k))>>

\* gotoByte has gone to the character after the second CRLF terminator.
C8_Witness ==
    /\ last.op = "gotoByte"
    /\ eol = "CRLF"
    /\ LineCount = 3
    /\ \E k \in 3..Len(DocDetails) :
        /\ last.target = DocDetails[k].byteOffset
        /\ DocDetails[k - 1].char = <<LF>>
        /\ KthPosition(k) = Pos(2, 0)
        /\ selections = <<Cursor(Pos(2, 0))>>

(***************************************************************************)
(* C9: iterCharDetails(text, eol, start) yields one record per code point  *)
(* of text, in order; the first record carries the start offsets, and from *)
(* one record to the next the charOffset grows by 1 and the byteOffset by  *)
(* the length of the earlier record's bytes.                               *)
(***************************************************************************)
C9_DetailsRunningOffsets ==
    last.op = "iterCharDetails"
        => LET text == getDocText(Pos(0, 0), EndOfDocument, -1).text IN
           /\ Len(out) = CodePointCount(text)
           /\ Flatten([k \in 1..Len(out) |-> out[k].char]) = text
           /\ \A k \in 1..Len(out) :
                \/ Len(out[k].char) = 1 /\ ~IsHigh(out[k].char[1])
                \/ Len(out[k].char) = 2 /\ IsHigh(out[k].char[1])
                                        /\ IsLow(out[k].char[2])
           /\ Len(out) >= 1 =>
                /\ out[1].byteOffset = last.start.byte
                /\ out[1].charOffset = last.start.char
           /\ \A k \in 2..Len(out) :
                /\ out[k].charOffset = out[k - 1].charOffset + 1
                /\ out[k].byteOffset = out[k - 1].byteOffset + Len(out[k - 1].bytes)

\* A decomposition, from non-zero start offsets, of a CRLF text in which a
\* terminator is followed by another character.
C9_Witness ==
    /\ last.op = "iterCharDetails"
    /\ last.start.byte = 3
    /\ eol = "CRLF"
    /\ \E k \in 2..Len(out) :
        /\ out[k - 1].char = <<LF>>
        /\ out[k].byteOffset = out[k - 1].byteOffset + 2

(***************************************************************************)
(* C10: in every record of iterCharDetails, bytes and charCodes describe   *)
(* the physical rendering.  For "\n" under CRLF: bytes = charCodes =       *)
(* [0x0d, 0x0a], with codePoint 0x0a; under LF: bytes = charCodes =        *)
(* [0x0a].  For any other character: charCodes has two units exactly when  *)
(* the code point is above 0xFFFF and one otherwise, and bytes is the      *)
(* UTF-8 encoding of the code point.                                       *)
(***************************************************************************)
C10_PhysicalRendering ==
    last.op = "iterCharDetails"
        => \A k \in 1..Len(out) :
            IF out[k].char = <<LF>>
            THEN /\ out[k].codePoint = 10
                 /\ eol = "CRLF" => /\ out[k].bytes = <<13, 10>>
                                    /\ out[k].charCodes = <<13, 10>>
                 /\ eol = "LF" => /\ out[k].bytes = <<10>>
                                  /\ out[k].charCodes = <<10>>
            ELSE /\ Len(out[k].charCodes) = (IF out[k].codePoint > 65535 THEN 2 ELSE 1)
                 /\ out[k].charCodes = out[k].char
                 /\ out[k].bytes = ExpectedUtf8(out[k].codePoint)
                 /\ out[k].bytes # <<>>

\* A decomposition of a CRLF text that holds a terminator and a character
\* outside the basic plane.
C10_Witness ==
    /\ last.op = "iterCharDetails"
    /\ eol = "CRLF"
    /\ \E k \in 1..Len(out) : out[k].char = <<LF>> /\ out[k].bytes = <<13, 10>>
    /\ \E k \in 1..Len(out) : out[k].codePoint = 128512 /\ Len(out[k].bytes) = 4


\* The document's character that starts at a position inside a line.
CharAt(p) ==
    LET t == LineText(p.line)
        c == p.character
    IN IF IsHigh(t[c + 1]) THEN SubSeq(t, c + 1, c + 2) ELSE <<t[c + 1]>>

AtLineEnd(p) == p.character = Len(LineText(p.line))

\* Bytes and characters of the whole document, counted line by line.
RECURSIVE SumOver(_, _)
SumOver(ls, k) ==
    IF ls = <<>> THEN 0
    ELSE (IF k = "byte" THEN ByteLength(Head(ls)) ELSE CodePointCount(Head(ls)))
         + SumOver(Tail(ls), k)

DocumentBytes ==
    SumOver(lines, "byte") + (LineCount - 1) * (IF eol = "CRLF" THEN 2 ELSE 1)
DocumentChars == SumOver(lines, "char") + (LineCount - 1)

IsCharScan == last.op = "iterCharPositions" /\ ~last.converted

(***************************************************************************)
(* C11: along the records of iterCharPositions, charOffset grows by        *)
(* exactly 1 from one record to the next (a CRLF pair counts once) and     *)
(* byteOffset grows by the UTF-8 length of the previous record's physical  *)
(* text: the bytes of the document's character there, 1 for an LF          *)
(* terminator and 2 for a CRLF terminator.  Both are never negative and    *)
(* never decrease.                                                         *)
(***************************************************************************)
C11_ScanRunningOffsets ==
    IsCharScan =>
        /\ \A k \in 1..Len(out) : out[k].byteOffset >= 0 /\ out[k].charOffset >= 0
        /\ \A k \in 1..(Len(out) - 1) :
            /\ out[k + 1].charOffset = out[k].charOffset + 1
            /\ out[k + 1].byteOffset = out[k].byteOffset + ByteLength(out[k].char)
            /\ out[k + 1].byteOffset - out[k].byteOffset =
                    IF AtLineEnd(out[k].pos)
                    THEN (IF eol = "CRLF" THEN 2 ELSE 1)
                    ELSE ByteLength(CharAt(out[k].pos))
            /\ out[k + 1].byteOffset >= out[k].byteOffset

\* A CRLF document was scanned: a 4-byte character, the terminator, an "a".
C11_Witness ==
    /\ IsCharScan /\ last.from = 0
    /\ eol = "CRLF"
    /\ lines = <<<<55357, 56832>>, <<97>>>>
    /\ Len(out) = 4
    /\ out[2].byteOffset = 4 /\ out[2].charOffset = 1
    /\ out[3].byteOffset = 6 /\ out[3].charOffset = 2

(***************************************************************************)
(* C12: for every document and every start line iterCharPositions ends:    *)
(* it yields one record per logical character from the start line on and   *)
(* one terminal record.  The last record, and no other, has the empty      *)
(* char; it sits at the end of the document and carries the document's     *)
(* total byte and character counts.  A document of one empty line yields   *)
(* just the terminal record, at (0, 0) with offsets (0, 0).                *)
(***************************************************************************)
C12_ScanTerminates ==
    IsCharScan =>
        LET n == Len(out)
            startLine == IF last.from = 0 THEN 0 ELSE last.from - 1
        IN /\ n = Cardinality({p \in LogicalPositions : p.line >= startLine})
           /\ n >= 1
           /\ out[n] = [char |-> <<>>, pos |-> EndOfDocument,
                        byteOffset |-> DocumentBytes, charOffset |-> DocumentChars]
           /\ \A k \in 1..(n - 1) : out[k].char # <<>>
           /\ (lines = <<<<>>>> =>
                 out = <<[char |-> <<>>, pos |-> Pos(0, 0),
                          byteOffset |-> 0, charOffset |-> 0]>>)

\* The scan of a two-line CRLF document from its second line has ended with
\* the terminal record after one character.
C12_Witness ==
    /\ IsCharScan /\ last.from = 2
    /\ eol = "CRLF"
    /\ lines = <<<<230>>, <<8364>>>>
    /\ Len(out) = 2
    /\ out[2].char = <<>> /\ out[2].byteOffset = 7 /\ out[2].charOffset = 3


IsScenario == lines = ScenarioLines /\ eol = "CRLF"
IsFixture == lines = FixtureLines /\ eol = "CRLF"

\* Text that reads as an offset: an optional sign, then decimal digits or 0x
\* and hexadecimal digits, and nothing else.
IsOffsetText(t) ==
    LET body == IF t # <<>> /\ Head(t) \in {"+", "-"} THEN Tail(t) ELSE t
    IN \/ body # <<>> /\ \A i \in 1..Len(body) : IsDigit(body[i], 10)
       \/ /\ Len(body) >= 3 /\ body[1] = "0" /\ body[2] = "x"
          /\ \A i \in 3..Len(body) : IsDigit(body[i], 16)

Malformed(input) == input.cancelled \/ ~IsOffsetText(input.text)
IsGotoInput == last.op \in {"gotoByteInput", "gotoCharInput"}

(***************************************************************************)
(* C16: when the text typed for a go-to command is malformed (nothing      *)
(* typed or the box dismissed, no number, or a number followed by other    *)
(* characters), the command rejects it before resolving anything: the      *)
(* selections of the editor stay as they were, and the command never goes  *)
(* to the offset that a prefix of the text reads as.                       *)
(***************************************************************************)
C16_InvalidInputRejected ==
    (IsGotoInput /\ Malformed(last.input))
        => last.nassign = 0 /\ selections = last.selBefore

(***************************************************************************)
(* C18, as claimed: in the CRLF document with the lines "a",               *)
(* b U+00E6 U+03A9 U+1F600 x, "c", gotoByte(9) leaves the non-empty        *)
(* selection from (1, 4) to (1, 6).                                        *)
(***************************************************************************)
C18_Byte9AsClaimed ==
    (IsScenario /\ last.op = "gotoByte" /\ last.target = 9)
        => selections = <<Selection(Pos(1, 4), Pos(1, 6))>>

(***************************************************************************)
(* C18, amended: in that document gotoByte(9) leaves the non-empty         *)
(* selection from (1, 3) to (1, 5), which covers U+1F600.  In the          *)
(* document with U+001B after the b, gotoByte(9) leaves the empty cursor   *)
(* at (1, 4) and gotoByte(10), (11), (12) the selection from (1, 4) to     *)
(* (1, 6).                                                                 *)
(***************************************************************************)
C18_Byte9 ==
    /\ (IsScenario /\ last.op = "gotoByte" /\ last.target = 9)
        => /\ selections = <<Selection(Pos(1, 3), Pos(1, 5))>>
           /\ GetText(Pos(1, 3), Pos(1, 5)) = <<55357, 56832>>
    /\ (IsFixture /\ last.op = "gotoByte" /\ last.target = 9)
        => selections = <<Cursor(Pos(1, 4))>>
    /\ (IsFixture /\ last.op = "gotoByte" /\ last.target \in 10..12)
        => selections = <<Selection(Pos(1, 4), Pos(1, 6))>>

\* gotoByte(9) has run on the five-code-point CRLF document.
C18_Witness ==
    /\ IsScenario /\ last.op = "gotoByte" /\ last.target = 9
    /\ selections = <<Selection(Pos(1, 3), Pos(1, 5))>>

(***************************************************************************)
(* C19, as claimed: in the same document gotoChar(6) leaves the empty      *)
(* cursor at (1, 4), the position of U+1F600.                              *)
(***************************************************************************)
C19_Char6AsClaimed ==
    (IsScenario /\ last.op = "gotoChar" /\ last.target = 6)
        => /\ selections = <<Cursor(Pos(1, 4))>>
           /\ CharAt(Pos(1, 4)) = <<55357, 56832>>

(***************************************************************************)
(* C19, amended: in that document gotoChar(6) leaves the empty cursor at   *)
(* (1, 5), the position of x, and gotoChar(5) the empty cursor at (1, 3),  *)
(* the position of U+1F600.  In the document with U+001B after the b,      *)
(* gotoChar(6) leaves the empty cursor at (1, 4), the position of U+1F600. *)
(***************************************************************************)
C19_Char6 ==
    /\ (IsScenario /\ last.op = "gotoChar" /\ last.target = 6)
        => selections = <<Cursor(Pos(1, 5))>> /\ CharAt(Pos(1, 5)) = <<120>>
    /\ (IsScenario /\ last.op = "gotoChar" /\ last.target = 5)
        => selections = <<Cursor(Pos(1, 3))>> /\ CharAt(Pos(1, 3)) = <<55357, 56832>>
    /\ (IsFixture /\ last.op = "gotoChar" /\ last.target = 6)
        => selections = <<Cursor(Pos(1, 4))>> /\ CharAt(Pos(1, 4)) = <<55357, 56832>>

\* gotoChar(6) has run on the five-code-point CRLF document.
C19_Witness ==
    /\ IsScenario /\ last.op = "gotoChar" /\ last.target = 6
    /\ selections = <<Cursor(Pos(1, 5))>>


(***************************************************************************)
(* C20, as claimed: in every record for a line terminator, of              *)
(* iterCharPositions and of iterCharDetails alike, char is "\n", also in   *)
(* a CRLF document.                                                        *)
(***************************************************************************)
C20_TerminatorCharAsClaimed ==
    /\ IsCharScan =>
        \A k \in 1..(Len(out) - 1) :
            AtLineEnd(out[k].pos) => out[k].char = <<LF>>
    /\ last.op = "iterCharDetails" =>
        \A k \in 1..Len(out) :
            AtLineEnd(KthPosition(k)) => out[k].char = <<LF>>

(***************************************************************************)
(* C20, amended: in every record of iterCharDetails for a line terminator  *)
(* char is "\n", also in a CRLF document; in every record of               *)
(* iterCharPositions for a line terminator char is the terminator as the   *)
(* document holds it: "\r\n" in a CRLF document, "\n" in an LF document.   *)
(***************************************************************************)
C20_TerminatorChar ==
    /\ IsCharScan =>
        \A k \in 1..(Len(out) - 1) :
            AtLineEnd(out[k].pos) =>
                out[k].char = IF eol = "CRLF" THEN <<CR, LF>> ELSE <<LF>>
    /\ last.op = "iterCharDetails" =>
        \A k \in 1..Len(out) :
            AtLineEnd(KthPosition(k)) => out[k].char = <<LF>>

\* A CRLF document of two lines was scanned: the record of its terminator
\* holds both code units.
C20_Witness ==
    /\ IsCharScan /\ last.from = 0
    /\ eol = "CRLF"
    /\ lines = <<<<97>>, <<97>>>>
    /\ out[2].char = <<CR, LF>> /\ out[2].pos = Pos(0, 1)


\* The integer a run of digits denotes, by the weight of each place.
RECURSIVE Numeral(_, _)
Numeral(z, radix) ==
    IF z = <<>> THEN 0
    ELSE DigitValue(Head(z)) * radix ^ (Len(z) - 1) + Numeral(Tail(z), radix)

\* The integer that offset text denotes, its sign included.
OffsetDenoted(t) ==
    LET signed == Head(t) \in {"+", "-"}
        body == IF signed THEN Tail(t) ELSE t
        magnitude == IF Len(body) >= 3 /\ body[2] = "x"
                     THEN Numeral(SubSeq(body, 3, Len(body)), 16)
                     ELSE Numeral(body, 10)
    IN IF Head(t) = "-" THEN 0 - magnitude ELSE magnitude

(***************************************************************************)
(* C14: parseOffset(input) gives {isRelative, value}: isRelative is true   *)
(* exactly when the input begins with + or -, and value is the signed      *)
(* integer the rest denotes, in decimal or in hexadecimal after 0x.  So    *)
(* "10" and "0x0a" give {false, 10}, "+10" and "+0x0a" give {true, 10},    *)
(* "-10" and "-0x0a" give {true, -10}.                                     *)
(***************************************************************************)
C14_ParseOffset ==
    last.op = "parseOffset" =>
        LET t == last.input IN
        /\ IsOffsetText(t) =>
            /\ ~out.failed
            /\ out.isRelative = (Head(t) \in {"+", "-"})
            /\ out.value = OffsetDenoted(t)
        /\ t \in {<<"1", "0">>, <<"0", "x", "0", "a">>} => out = ParsedOffset(FALSE, 10)
        /\ t \in {<<"+", "1", "0">>, <<"+", "0", "x", "0", "a">>}
            => out = ParsedOffset(TRUE, 10)
        /\ t \in {<<"-", "1", "0">>, <<"-", "0", "x", "0", "a">>}
            => out = ParsedOffset(TRUE, -10)

\* parseOffset has read "-0x0a".
C14_Witness ==
    /\ last.op = "parseOffset"
    /\ last.input = <<"-", "0", "x", "0", "a">>
    /\ out = ParsedOffset(TRUE, -10)

\* Text that reads as a code point: decimal digits, or 0x, \x, \u or U+ and
\* hexadecimal digits.
IsCodePointText(t) ==
    \/ t # <<>> /\ \A i \in 1..Len(t) : IsDigit(t[i], 10)
    \/ /\ Len(t) >= 3
       /\ <<t[1], t[2]>> \in {<<"0", "x">>, <<"\\", "x">>, <<"\\", "u">>, <<"U", "+">>}
       /\ \A i \in 3..Len(t) : IsDigit(t[i], 16)

(***************************************************************************)
(* C15: parseCodePoint gives the same integer for every notation of one    *)
(* value: decimal digits give their decimal value, and the same            *)
(* hexadecimal digits after 0x, \x, \u or U+ give their hexadecimal        *)
(* value, so "65", "0x41", "\u41", "\x41" and "U+41" all give 65.  Any     *)
(* other input fails.                                                      *)
(***************************************************************************)
C15_ParseCodePoint ==
    last.op = "parseCodePoint" =>
        LET t == last.input IN
        /\ IsCodePointText(t) =>
            /\ ~out.failed
            /\ out.value = IF IsDigit(t[1], 10) /\ (Len(t) = 1 \/ IsDigit(t[2], 10))
                           THEN Numeral(t, 10)
                           ELSE Numeral(SubSeq(t, 3, Len(t)), 16)
        /\ t \in {<<"6", "5">>, <<"0", "x", "4", "1">>, <<"\\", "u", "4", "1">>,
                  <<"\\", "x", "4", "1">>, <<"U", "+", "4", "1">>}
            => out = ParsedCodePoint(65)
        /\ ~IsCodePointText(t) => out.failed

\* parseCodePoint has read "U+41".
C15_Witness ==
    /\ last.op = "parseCodePoint"
    /\ last.input = <<"U", "+", "4", "1">>
    /\ out = ParsedCodePoint(65)


\* The selections an absolute go-to of last.kind to offset t leaves when it
\* runs with the selections sels.
AfterAbsolute(sels, t) ==
    LET r == IF last.kind = "byte" THEN gotoByte(t) ELSE gotoChar(t)
    IN IF r.assigned = <<>> THEN sels ELSE <<r.assigned[Len(r.assigned)]>>

\* The first go-to went to an offset at which a character of the document
\* starts, or to the end of the document.
FirstOnBoundary ==
    \E k \in 1..Len(ScanAll) :
        last.s = IF last.kind = "byte" THEN ScanAll[k].byteOffset
                 ELSE ScanAll[k].charOffset

RelTotal == IF last.kind = "byte" THEN TotalBytes ELSE TotalChars

Unpaired(t) ==
    {i + 1 : i \in {j \in 1..Len(t) : t[j] = CR}} # {i \in 1..Len(t) : t[i] = LF}

\* The text read from the document for the details, before normalisation.
RawText == Slice(GetText(last.range.start, last.range.end), last.maxLength)

\* The records in `out` cover a text completely, one record per code point.
Decomposed(t) ==
    /\ Len(out) = CodePointCount(t)
    /\ Flatten([k \in 1..Len(out) |-> out[k].char]) = t

(***************************************************************************)
(* C17, as claimed: the decomposer never runs to completion on a text that *)
(* contains an unpaired \r or an unpaired \n: it raises an error instead   *)
(* of yielding a record for it.                                            *)
(***************************************************************************)
C17_DecomposerFailsAsClaimed ==
    (last.op = "showCharInfo" /\ ~last.threw /\ Unpaired(last.text))
        => ~Decomposed(last.text)

(***************************************************************************)
(* C17, amended: the check is made by getDocText, before the decomposer    *)
(* runs, and for CRLF documents only: it throws exactly when the text read *)
(* from a CRLF document has a \r not followed by \n or a \n not preceded   *)
(* by \r, and then no record is produced.  iterCharDetails itself never    *)
(* fails: it yields one record for every code point of the text it is      *)
(* given, a lone \n included.                                              *)
(***************************************************************************)
C17_NormalisationChecks ==
    last.op = "showCharInfo" =>
        /\ last.threw <=> (eol = "CRLF" /\ Unpaired(RawText))
        /\ last.threw => out = <<>>
        /\ ~last.threw => Decomposed(last.text)

\* The text of a two-line CRLF document was cut between its \r and its \n:
\* getDocText threw.
C17_Witness ==
    /\ last.op = "showCharInfo"
    /\ eol = "CRLF" /\ lines = <<<<97>>, <<97>>>>
    /\ last.range = [start |-> Pos(0, 0), end |-> Pos(1, 1)]
    /\ last.maxLength = 2
    /\ last.threw


(***************************************************************************)
(* C21: one step of advancePosition from (line, col): when col is before   *)
(* the end of the line's text, the result is (line, col + 2) if the code   *)
(* unit at col is a high surrogate (0xD800..0xDBFF) and (line, col + 1)    *)
(* otherwise; when col is at the end and a next line exists, the result    *)
(* is (line + 1, 0).                                                       *)
(***************************************************************************)
C21_SingleStep ==
    (last.op = "advancePosition" /\ last.count = 1) =>
        LET p == last.pos
            t == LineText(p.line)
        IN /\ p.character < Len(t) =>
                out[1] = Pos(p.line,
                             IF 55296 <= t[p.character + 1] /\ t[p.character + 1] <= 56319
                             THEN p.character + 2
                             ELSE p.character + 1)
           /\ (p.character >= Len(t) /\ p.line + 1 < LineCount) =>
                out[1] = Pos(p.line + 1, 0)

\* One step was taken from a low surrogate that stands alone before an "a".
C21_Witness ==
    /\ last.op = "advancePosition" /\ last.count = 1
    /\ lines = <<<<56832, 97>>>>
    /\ last.pos = Pos(0, 0)
    /\ out[1] = Pos(0, 1)

\* Logical characters of a text: its code units, a low surrogate right after
\* a high surrogate not counted.
RECURSIVE CharsOf(_)
CharsOf(t) ==
    IF t = <<>> THEN 0
    ELSE IF Len(t) >= 2 /\ IsHigh(t[1]) /\ IsLow(t[2])
         THEN 1 + CharsOf(SubSeq(t, 3, Len(t)))
         ELSE 1 + CharsOf(Tail(t))

\* Logical characters, line terminators included, between a position and
\* the end of the document.
RECURSIVE CharsFromLine(_)
CharsFromLine(n) ==
    IF n >= LineCount THEN 0 ELSE 1 + CharsOf(LineText(n)) + CharsFromLine(n + 1)

Remaining(p) ==
    CharsOf(SubSeq(LineText(p.line), p.character + 1, Len(LineText(p.line))))
    + CharsFromLine(p.line + 1)

(***************************************************************************)
(* C22: advancePosition(pos, doc, count) returns null exactly when count   *)
(* is greater than the number of logical characters, line terminators      *)
(* included, between pos and the end of the document.  Otherwise it        *)
(* returns the position that has count fewer characters after it: pos      *)
(* itself for count = 0, the end of the last line when count is exactly    *)
(* that number, and every line crossing takes one unit of count.           *)
(***************************************************************************)
C22_NullIffBeyond ==
    last.op = "advancePosition" =>
        LET n == Remaining(last.pos) IN
        /\ (out[1] = NullPos) <=> (last.count > n)
        /\ last.count = 0 => out[1] = last.pos
        /\ last.count = n => out[1] = EndOfDocument
        /\ last.count <= n =>
            /\ out[1] \in ValidPositions
            /\ Remaining(out[1]) = n - last.count

\* Three steps from the start of a document of two lines have crossed the
\* line end and landed exactly on the end of the last line.
C22_Witness ==
    /\ last.op = "advancePosition"
    /\ lines = <<<<97>>, <<55357, 56832>>>>
    /\ last.pos = Pos(0, 0) /\ last.count = 3
    /\ out[1] = Pos(1, 2)

(***************************************************************************)
(* C23: in a document whose lines are arbitrary code units, every          *)
(* position that advancePosition returns and every position in a record    *)
(* of iterCharPositions has a column no greater than the length of its     *)
(* line's text.                                                            *)
(***************************************************************************)
C23_ColumnsWithinLines ==
    /\ (last.op = "advancePosition" /\ out[1] # NullPos)
        => out[1].character <= Len(LineText(out[1].line))
    /\ IsCharScan =>
        \A k \in 1..Len(out) :
            out[k].pos.character <= Len(LineText(out[k].pos.line))


\* The line table with nothing omitted.
FullLineTable == iterLineStartPositions(FALSE, FALSE)

(***************************************************************************)
(* C24: iterLineStartPositions run with one kind of offset omitted         *)
(* reports the omitted field as 0 in every record; the other offset, the   *)
(* positions and the texts are those of a run with nothing omitted.        *)
(* gotoByte (which omits charOffset) and gotoChar (which omits byteOffset) *)
(* do not depend on the omitted field: they leave the selection they would *)
(* leave with the full table.                                              *)
(***************************************************************************)
C24_OmittedOffsetIsZero ==
    /\ (last.op = "iterLineStartPositions" /\ ~last.converted) =>
        /\ Len(out) = Len(FullLineTable)
        /\ \A k \in 1..Len(out) :
            /\ out[k].pos = FullLineTable[k].pos
            /\ out[k].text = FullLineTable[k].text
            /\ out[k].byteOffset =
                 IF last.omitByteOffset THEN 0 ELSE FullLineTable[k].byteOffset
            /\ out[k].charOffset =
                 IF last.omitCharOffset THEN 0 ELSE FullLineTable[k].charOffset
    /\ last.op = "gotoByte" =>
        LET r == GotoByteLines(peeking(FullLineTable), 1, last.target) IN
        /\ last.nassign = Len(r.assigned)
        /\ last.nassign > 0 => selections = <<r.assigned[Len(r.assigned)]>>
    /\ last.op = "gotoChar" =>
        LET r == GotoCharLines(peeking(FullLineTable), 1, last.target) IN
        /\ last.nassign = Len(r.assigned)
        /\ last.nassign > 0 => selections = <<r.assigned[Len(r.assigned)]>>

\* The table of a document of two lines was produced with byteOffset
\* omitted: the second record counts the characters and no bytes.
C24_Witness ==
    /\ last.op = "iterLineStartPositions" /\ ~last.converted
    /\ last.omitByteOffset /\ ~last.omitCharOffset
    /\ lines = <<<<55357, 56832>>, <<97>>>>
    /\ out[2].byteOffset = 0
    /\ out[2].charOffset = 2

\* Byte offset of the start of line n, counted from the line texts.
RECURSIVE LineStartByte(_)
LineStartByte(n) ==
    IF n = 0 THEN 0
    ELSE LineStartByte(n - 1) + ByteLength(LineText(n - 1))
         + (IF eol = "CRLF" THEN 2 ELSE 1)

\* Line n is passed over without a scan of its characters.
Skipped(n, targetOffset) == n + 1 < LineCount /\ LineStartByte(n + 1) <= targetOffset

(***************************************************************************)
(* C25: gotoByte with the line table leaves the selection that the plain   *)
(* scan of the characters from the start of the document leaves, and no    *)
(* line it skips holds a position of that selection.                       *)
(***************************************************************************)
C25_LineSkipEqualsPlainScan ==
    last.op = "gotoByte" =>
        LET r == gotoBytePlain(last.target) IN
        /\ ~last.threw /\ ~r.threw
        /\ last.nassign = Len(r.assigned)
        /\ last.nassign > 0 =>
            /\ selections = <<r.assigned[1]>>
            /\ \A n \in 0..(LineCount - 1) :
                Skipped(n, last.target) =>
                    /\ r.assigned[1].anchor.line > n
                    /\ r.assigned[1].active.line > n

\* The first line was skipped and the target fell inside the pair of CR and
\* LF that ends the second line: the selection spans that line end.
C25_Witness ==
    /\ last.op = "gotoByte"
    /\ lines = <<<<>>, <<>>, <<97>>>> /\ eol = "CRLF"
    /\ last.target = 3
    /\ selections = <<Selection(Pos(1, 0), Pos(2, 0))>>


(***************************************************************************)
(* C26: in a document whose lines are arbitrary code units, the record     *)
(* that iterCharPositions, run from the start of the document, yields at   *)
(* the start of line i carries the byteOffset and the charOffset of the    *)
(* i-th record of iterLineStartPositions.                                  *)
(***************************************************************************)
C26_ScanAgreesWithLineTable ==
    (IsCharScan /\ last.from = 0) =>
        \A i \in 0..(LineCount - 1) :
            \A k \in 1..Len(out) :
                out[k].pos = Pos(i, 0) =>
                    /\ out[k].byteOffset = FullLineTable[i + 1].byteOffset
                    /\ out[k].charOffset = FullLineTable[i + 1].charOffset

(***************************************************************************)
(* C27: for every position of a record of iterCharPositions, getOffsets    *)
(* returns the byteOffset and the charOffset of that record, in LF and in  *)
(* CRLF documents.                                                         *)
(***************************************************************************)
C27_GetOffsetsAgreesWithScan ==
    last.op = "getOffsets" =>
        \A k \in 1..Len(ScanAll) :
            ScanAll[k].pos = last.pos =>
                /\ out[1].byte = ScanAll[k].byteOffset
                /\ out[1].char = ScanAll[k].charOffset

\* The offsets of the start of the second line of a CRLF document were
\* taken: four bytes of the pair and two of the line end, two characters.
C27_Witness ==
    /\ last.op = "getOffsets"
    /\ eol = "CRLF" /\ lines = <<<<55357, 56832>>, <<97>>>>
    /\ last.pos = Pos(1, 0)
    /\ out[1] = [byte |-> 6, char |-> 2]

(***************************************************************************)
(* C28: for a well-formed CRLF document, reading the text of a range never *)
(* fails with 'File contains broken CRLF pairs', whatever the range and    *)
(* maxLength, also when maxLength falls between a \r and its \n.           *)
(***************************************************************************)
C28_WellFormedNeverThrows ==
    (last.op = "showCharInfo" /\ eol = "CRLF") => ~last.threw

(***************************************************************************)
(* C29: gotoByte and gotoChar with a negative target leave one empty       *)
(* selection at (0, 0), in every document.                                 *)
(***************************************************************************)
C29_NegativeTargetGoesToStart ==
    (IsGoto /\ last.target < 0) =>
        /\ ~last.threw
        /\ last.nassign = 1
        /\ selections = <<Cursor(Pos(0, 0))>>
        /\ IsEmpty(selections[1])

\* gotoByte(-3) has replaced a selection and a cursor at the end of a
\* document of two lines by the cursor at its start.
C29_Witness ==
    /\ last.op = "gotoByte" /\ last.target = -3
    /\ last.before = 2
    /\ lines = <<<<97>>, <<55357, 56832>>>>
    /\ selections = <<Cursor(Pos(0, 0))>>

====
